---- MODULE Spec2Model ----
(***************************************************************************)
(* Model of the unnatural-planets generator: terrain configuration and     *)
(* signed-distance evaluation (terrainElevation.cpp), and the generation   *)
(* pipeline and texture inpainting (generator.cpp).                        *)
(***************************************************************************)
EXTENDS Integers, Sequences, FiniteSets, TLC

VARIABLES
    configShapeMode,      \* ConfigString "unnatural-planets/shape/mode"
    configElevationMode,  \* ConfigString "unnatural-planets/elevation/mode"
    terrainShapeFnc,      \* TerrainFunctor, "null" when 0
    terrainElevationFnc,  \* TerrainFunctor, "null" when 0
    lastOp,               \* the operation that produced the current state
    applyResult,          \* outcome of the last terrainApplyConfig call
    drewRandom,           \* the last terrainApplyConfig call used randomRange
    randomPick,           \* name persisted by the last random draw, "" if none
    sdf,                  \* results of the last evaluation of the sdf functions
    img,                  \* the image inpaint() is applied to (albedo / special)
    img0,                 \* the image before the first pass
    prevImg,              \* the image before the last pass (tmp after the swap)
    passes,               \* number of inpaint passes applied so far
    pc,                   \* the stage generateTerrain runs next
    field,                \* the terrain the configured functions describe
    densities,            \* std::vector<real> densities
    mcVertices,           \* std::vector<dualmc::Vertex>
    mcIndices,            \* std::vector<dualmc::Quad>
    extracted,            \* what the extractor returned (kept for the properties)
    meshVertices,         \* std::vector<vertexStruct>
    meshIndices,          \* std::vector<uint32>
    planetScale,          \* real planetScale
    atlas,                \* holder<xatlas::Atlas>
    albedo,               \* holder<image> albedo
    special,              \* holder<image> special
    pathProperties,       \* std::vector<vec2>
    genError,             \* the exception generateTerrain ended with, "" if none
    stagesRun,            \* the stages entered so far, in order
    navigationObj,        \* planet-navigation.obj as exportTerrain wrote it
    rasterTri,            \* ivec2 t0, t1, t2 of the rasterizer, after the swaps
    rasterRow,            \* sint32 i: the scanlines iterated so far
    rasterLine,           \* the last scanline: segment height, span and y
    chunksCount,          \* the number of chunks given to the worker pool
    threadsCount,         \* the number of threads of the worker pool
    workers,              \* per started worker: its range and its next chunk
    processed             \* per chunk: how many times it was processed

cfgVars == <<configShapeMode, configElevationMode, terrainShapeFnc,
             terrainElevationFnc, lastOp, applyResult, drewRandom, randomPick, sdf>>

imgVars == <<img, img0, prevImg, passes>>

genVars == <<pc, field, densities, mcVertices, mcIndices, extracted, meshVertices,
             meshIndices, planetScale, atlas, albedo, special, pathProperties,
             genError, stagesRun, navigationObj>>

rasterVars == <<rasterTri, rasterRow, rasterLine>>

poolVars == <<chunksCount, threadsCount, workers, processed>>

vars == <<cfgVars, imgVars, genVars, rasterVars, poolVars>>

-----------------------------------------------------------------------------
(* Registries of chooseElevationFunction and chooseShapeFunction.           *)

elevationModeFunctions ==
    <<"elevationNone", "elevationSimple", "elevationLegacy", "elevationLakes",
      "elevationIslands">>

elevationModeNames == <<"none", "simple", "legacy", "lakes", "islands">>

elevationModesCount == Len(elevationModeFunctions)

shapeModeFunctions ==
    <<"sdfHexagon", "sdfSquare", "sdfSphere", "sdfTorus", "sdfTube", "sdfDisk",
      "sdfCapsule", "sdfBox", "sdfCube", "sdfTetrahedron", "sdfOctahedron",
      "sdfKnot", "sdfMobiusStrip", "sdfFibers", "sdfH2O", "sdfH3O", "sdfH4O",
      "sdfTriangularPrism", "sdfHexagonalPrism">>

shapeModeNames ==
    <<"hexagon", "square", "sphere", "torus", "tube", "disk", "capsule", "box",
      "cube", "tetrahedron", "octahedron", "knot", "mobiusstrip", "fibers",
      "h2o", "h3o", "h4o", "triangularprism", "hexagonalprism">>

shapeModesCount == Len(shapeModeFunctions)

Range(s) == {s[i] : i \in 1..Len(s)}

\* The registry entry of a name (used by the properties, not by the actions).
FunctionNamed(names, functions, name) ==
    functions[CHOOSE i \in 1..Len(names) : names[i] = name]

\* Values the two configuration strings take in the model: every registry
\* name, "random", and a name no registry holds.
ShapeConfigValues == Range(shapeModeNames) \cup {"random", "bogus"}

ElevationConfigValues == Range(elevationModeNames) \cup {"bogus"}

\* for (i = 0; i < count; i++) if (name == names[i]) fnc = functions[i];
\* the pointer keeps its previous value when no name matches.
RECURSIVE LookupLoop(_, _, _, _, _)
LookupLoop(names, functions, name, i, fnc) ==
    IF i > Len(names) THEN fnc
    ELSE LookupLoop(names, functions, name, i + 1,
                    IF name = names[i] THEN functions[i] ELSE fnc)

\* randomRange(min, max) of the engine: an integer in [min, max).
randomRange(min, max) == min .. (max - 1)

RandomShapeKeepsRandom(i) ==
    [fnc |-> shapeModeFunctions[i + 1], name |-> "random"]

\* The "random" branch of chooseShapeFunction for the drawn index i (0-based).
RandomShape(i) ==
    [fnc |-> shapeModeFunctions[i + 1], name |-> shapeModeNames[i + 1]]

\* chooseShapeFunction: the state it leaves and whether it threw.
chooseShapeFunction(i) ==
    IF configShapeMode = "random"
    THEN [fnc |-> RandomShape(i).fnc, mode |-> RandomShape(i).name,
          threw |-> FALSE, drew |-> TRUE]
    ELSE LET f == LookupLoop(shapeModeNames, shapeModeFunctions,
                             configShapeMode, 1, terrainShapeFnc)
         IN  [fnc |-> f, mode |-> configShapeMode, threw |-> (f = "null"),
              drew |-> FALSE]

\* chooseElevationFunction: the state it leaves and whether it threw.
chooseElevationFunction ==
    LET f == LookupLoop(elevationModeNames, elevationModeFunctions,
                        configElevationMode, 1, terrainElevationFnc)
    IN  [fnc |-> f, threw |-> (f = "null")]

-----------------------------------------------------------------------------
(* Reals of the sdf functions: a finite value in tenths, or a non-finite   *)
(* value (what valid() rejects).                                           *)

Fin(n) == [fin |-> TRUE, v |-> n]

NonFinite == [fin |-> FALSE, v |-> 0]

valid(r) == r.fin

RMulInt(r, k) == IF r.fin THEN Fin(r.v * k) ELSE NonFinite

RDivInt(r, k) == IF r.fin THEN Fin(r.v \div k) ELSE NonFinite

RSub(a, b) == IF a.fin /\ b.fin THEN Fin(a.v - b.v) ELSE NonFinite

RMax0(a) == IF a.fin THEN Fin(IF a.v > 0 THEN a.v ELSE 0) ELSE NonFinite

meshElevationRatio == 10

\* Tenths per unit: the sdf reals are fixed-point numbers with one decimal.
Unit == meshElevationRatio

Throw == [threw |-> TRUE, value |-> NonFinite]

Return(r) == [threw |-> FALSE, value |-> r]

\* elevationNone returns 100 for every position.
elevationNone == Fin(100 * Unit)

\* Values the shape functions (sdf.h) return at the sampled positions.
ShapeValues == {Fin(-15), Fin(0), Fin(7), Fin(100), NonFinite}

\* Values the noise-based elevation functions return at the sampled positions.
ElevationValues(fnc) ==
    IF fnc = "elevationNone" THEN {elevationNone}
    ELSE {Fin(-500), Fin(0), Fin(70), Fin(1000), NonFinite}

\* terrainSdfElevation, given the value s of terrainShapeFnc(pos).
terrainSdfElevation(s) ==
    LET result == RMulInt(s, meshElevationRatio)
    IN  IF ~valid(result) THEN Throw ELSE Return(result)

\* terrainSdfElevationRaw, given the value e of terrainElevationFnc(pos).
terrainSdfElevationRaw(e) ==
    LET result == e
    IN  IF ~valid(result) THEN Throw ELSE Return(result)

terrainSdfLandOfShapeElevation(s, e) ==
    LET base   == s
        elev   == RDivInt(RMulInt(s, meshElevationRatio), meshElevationRatio)
        result == RSub(base, elev)
    IN  IF ~valid(result) THEN Throw ELSE Return(result)

terrainSdfLandUnchecked(s, e) ==
    LET base   == s
        elev   == RDivInt(e, meshElevationRatio)
        result == RSub(base, elev)
    IN  Return(result)

\* terrainSdfLand, given s = terrainShapeFnc(pos) and e = terrainElevationFnc(pos).
terrainSdfLand(s, e) ==
    LET base   == s
        elev   == RDivInt(e, meshElevationRatio)
        result == RSub(base, elev)
    IN  IF ~valid(result) THEN Throw ELSE Return(result)

\* terrainSdfWater.
terrainSdfWater(s) ==
    LET result == s
    IN  IF ~valid(result) THEN Throw ELSE Return(result)

\* terrainSdfNavigation.
terrainSdfNavigation(s, e) ==
    LET base   == s
        elev   == RDivInt(e, meshElevationRatio)
        result == RSub(base, RMax0(elev))
    IN  IF ~valid(result) THEN Throw ELSE Return(result)

NoSdf == [shape |-> NonFinite, elevRaw |-> NonFinite, elevation |-> Throw,
          elevationRaw |-> Throw, land |-> Throw, water |-> Throw,
          navigation |-> Throw]

-----------------------------------------------------------------------------
(* Images and inpainting (generator.cpp).  A channel value is an exact,     *)
(* non-negative rational <<numerator, denominator>> in lowest terms; a      *)
(* texel (real, vec2, vec3, vec4) is a tuple of channel values.            *)

RECURSIVE GCD(_, _)
GCD(a, b) == IF b = 0 THEN a ELSE GCD(b, a % b)

Rat(n, d) == LET g == GCD(n, d) IN <<n \div g, d \div g>>

RatAdd(a, b) == Rat(a[1] * b[2] + b[1] * a[2], a[2] * b[2])

RatDiv(a, k) == Rat(a[1], a[2] * k)

\* T(): the all-zero value of the channel type.
ZeroTexel(c) == [ch \in 1..c |-> <<0, 1>>]

\* T::operator+=
TexelAdd(a, b) == [ch \in 1..Len(a) |-> RatAdd(a[ch], b[ch])]

\* T::operator/ (uint32)
TexelDiv(a, k) == [ch \in 1..Len(a) |-> RatDiv(a[ch], k)]

Texels(w, h) == (0..(w - 1)) \X (0..(h - 1))

\* image::empty(w, h, c): a zero-filled image.
EmptyImage(w, h, c) ==
    [w |-> w, h |-> h, c |-> c, px |-> [t \in Texels(w, h) |-> ZeroTexel(c)]]

NoImage == EmptyImage(0, 0, 0)

\* get(img, x, y, result)
get(image, x, y) == image.px[<<x, y>>]

clamp(v, lo, hi) == IF v < lo THEN lo ELSE IF v > hi THEN hi ELSE v

\* The two nested loops over the window, row by row: the accumulator is
\* [m, cnt]; texels that differ from T() are added and counted.
RECURSIVE WindowLoop(_, _, _, _, _, _, _)
WindowLoop(src, sx, ex, ey, xx, yy, acc) ==
    IF yy > ey THEN acc
    ELSE IF xx > ex THEN WindowLoop(src, sx, ex, ey, sx, yy + 1, acc)
    ELSE LET a == get(src, xx, yy)
         IN  WindowLoop(src, sx, ex, ey, xx + 1, yy,
                        IF a # ZeroTexel(src.c)
                        THEN [m |-> TexelAdd(acc.m, a), cnt |-> acc.cnt + 1]
                        ELSE acc)

InpaintTexelAllNeighbours(src, x, y, old) ==
    LET m  == get(src, x, y)
        sy == clamp(y - 1, 0, src.h - 1)
        ey == clamp(y + 1, 0, src.h - 1)
        sx == clamp(x - 1, 0, src.w - 1)
        ex == clamp(x + 1, 0, src.w - 1)
        acc == WindowLoop(src, sx, ex, ey, sx, sy, [m |-> m, cnt |-> 0])
        n  == (ex - sx + 1) * (ey - sy + 1) - 1
    IN  IF m = ZeroTexel(src.c)
        THEN IF acc.cnt > 0 /\ n > 0 THEN TexelDiv(acc.m, n) ELSE old
        ELSE m

InpaintTexelNoCopy(src, x, y, old) ==
    LET m  == get(src, x, y)
        sy == clamp(y - 1, 0, src.h - 1)
        ey == clamp(y + 1, 0, src.h - 1)
        sx == clamp(x - 1, 0, src.w - 1)
        ex == clamp(x + 1, 0, src.w - 1)
        acc == WindowLoop(src, sx, ex, ey, sx, sy, [m |-> m, cnt |-> 0])
    IN  IF m = ZeroTexel(src.c)
        THEN IF acc.cnt > 0 THEN TexelDiv(acc.m, acc.cnt) ELSE old
        ELSE old

InpaintTexelBlur(src, x, y, old) ==
    LET m  == get(src, x, y)
        sy == clamp(y - 1, 0, src.h - 1)
        ey == clamp(y + 1, 0, src.h - 1)
        sx == clamp(x - 1, 0, src.w - 1)
        ex == clamp(x + 1, 0, src.w - 1)
        acc == WindowLoop(src, sx, ex, ey, sx, sy,
                          [m |-> ZeroTexel(src.c), cnt |-> 0])
    IN  IF acc.cnt > 0 THEN TexelDiv(acc.m, acc.cnt) ELSE old

\* The body of the x/y loops of inpaintProcess for one texel: the value the
\* destination holds at (x, y) afterwards, old being its value before.
InpaintTexel(src, x, y, old) ==
    LET m  == get(src, x, y)
        sy == clamp(y - 1, 0, src.h - 1)
        ey == clamp(y + 1, 0, src.h - 1)
        sx == clamp(x - 1, 0, src.w - 1)
        ex == clamp(x + 1, 0, src.w - 1)
        acc == WindowLoop(src, sx, ex, ey, sx, sy, [m |-> m, cnt |-> 0])
    IN  IF m = ZeroTexel(src.c)
        THEN IF acc.cnt > 0 THEN TexelDiv(acc.m, acc.cnt) ELSE old
        ELSE m

\* inpaintProcess<T>(src, dst)
inpaintProcess(src, dst) ==
    [dst EXCEPT !.px = [t \in Texels(src.w, src.h) |->
                           InpaintTexel(src, t[1], t[2], dst.px[t])]]

inpaintWithoutSwap(image) == image

\* inpaint(img): the image img holds afterwards.  Channel counts other than
\* 1..4 run no process and leave the empty tmp in img.
inpaint(image) ==
    LET tmp == EmptyImage(image.w, image.h, image.c)
    IN  IF image.c \in 1..4 THEN inpaintProcess(image, tmp) ELSE tmp

\* Bounds of the images the passes are applied to.
MaxWidth == 4

MaxHeight == 4

MaxChannels == 2

NumFields == 3

\* The number of passes generateTerrain applies to each image.
inpaintPasses == 5

\* Image sizes up to which every set of zero texels is drawn.
SmallArea == 9

\* A non-zero texel of the k-th material field at (x, y).
FieldTexel(k, c, x, y) ==
    LET t == [ch \in 1..c |-> <<(x + ch * y + k) % 3, 1>>]
    IN  IF t = ZeroTexel(c) THEN [ch \in 1..c |-> <<ch, 1>>] ELSE t

\* Axis-aligned blocks of texels inside a w x h image.
Rects(w, h) ==
    {{t \in Texels(w, h) : t[1] \in x0..x1 /\ t[2] \in y0..y1} :
        x0 \in 0..(w - 1), x1 \in 0..(w - 1), y0 \in 0..(h - 1), y1 \in 0..(h - 1)}

\* Sets of texels the rasterizer left unset (zero): blocks, and for small
\* images every subset.
ZeroSets(w, h) ==
    Rects(w, h) \cup (IF w * h <= SmallArea THEN SUBSET Texels(w, h) ELSE {})

FieldImage(w, h, c, k, Z) ==
    [w |-> w, h |-> h, c |-> c,
     px |-> [t \in Texels(w, h) |->
                IF t \in Z THEN ZeroTexel(c) ELSE FieldTexel(k, c, t[1], t[2])]]

-----------------------------------------------------------------------------
(* Vectors of the mesh stages.  A real is a fixed-point integer with        *)
(* FixedOne units per 1.0; a vec3 is a triple of reals, or NaNVec when an   *)
(* operation produced a non-finite value (normalize of a zero vector).      *)

FixedOne == 10 * 10 * 10

NaNVec == <<>>

Zero3 == <<0, 0, 0>>

Abs(a) == IF a < 0 THEN -a ELSE a

\* Division that rounds towards zero.
DivT(a, b) == IF a < 0 THEN -((-a) \div b) ELSE a \div b

RECURSIVE SqrtIter(_, _)
SqrtIter(n, x) ==
    LET y == (x + n \div x) \div 2 IN IF y >= x THEN x ELSE SqrtIter(n, y)

\* sqrt of a non-negative integer, rounded down.
Sqrt(n) == IF n = 0 THEN 0 ELSE SqrtIter(n, n)

VAdd(a, b) ==
    IF a = NaNVec \/ b = NaNVec THEN NaNVec
    ELSE <<a[1] + b[1], a[2] + b[2], a[3] + b[3]>>

VSub(a, b) == <<a[1] - b[1], a[2] - b[2], a[3] - b[3]>>

\* vec3 * real
VScale(a, k) ==
    <<DivT(a[1] * k, FixedOne), DivT(a[2] * k, FixedOne), DivT(a[3] * k, FixedOne)>>

cross(a, b) ==
    <<DivT(a[2] * b[3] - a[3] * b[2], FixedOne),
      DivT(a[3] * b[1] - a[1] * b[3], FixedOne),
      DivT(a[1] * b[2] - a[2] * b[1], FixedOne)>>

\* squared length, in units of 1/FixedOne^2
lengthSquared(a) == a[1] * a[1] + a[2] * a[2] + a[3] * a[3]

distanceSquared(a, b) == lengthSquared(VSub(a, b))

distance(a, b) == Sqrt(distanceSquared(a, b))

\* normalize(v) = v / length(v); a zero vector has no direction.
normalize(a) ==
    IF a = NaNVec THEN NaNVec
    ELSE LET len == Sqrt(lengthSquared(a))
         IN  IF len = 0 THEN NaNVec
             ELSE <<DivT(a[1] * FixedOne, len), DivT(a[2] * FixedOne, len),
                    DivT(a[3] * FixedOne, len)>>

-----------------------------------------------------------------------------
(* Densities, surface extraction and triangles (generator.cpp).             *)

\* Side of the density grid in the model (the program uses 40 or 200).
verticesPerSide == 4

\* mc2c: grid index space to [-1, 1].
mc2c(v) ==
    <<(v[1] * 2 * FixedOne) \div verticesPerSide - FixedOne,
      (v[2] * 2 * FixedOne) \div verticesPerSide - FixedOne,
      (v[3] * 2 * FixedOne) \div verticesPerSide - FixedOne>>

\* The terrains of the model: 1 crosses zero inside the grid, 2 is positive
\* everywhere, 3 is negative everywhere, 4 is like 1 but divides by the
\* distance to the origin, which is a point of the grid.
DensityFields == {1, 2, 3, 4}

\* terrainShapeFnc(p) of the terrain k.
ShapeAt(k, p) ==
    LET r2 == lengthSquared(p) \div FixedOne
    IN  IF k = 1 THEN Fin(r2 - FixedOne \div 2)
        ELSE IF k = 2 THEN Fin(r2 + FixedOne)
        ELSE IF k = 3 THEN Fin(0 - r2 - FixedOne)
        ELSE IF r2 = 0 THEN NonFinite ELSE Fin(r2 - FixedOne \div 2)

\* terrainElevationFnc(p) of the terrain k.
ElevationAt(k, p) == Fin(0)

\* terrainDensity(p): the land field of the field evaluator.
terrainDensity(k, p) == terrainSdfLand(ShapeAt(k, p), ElevationAt(k, p))

\* The grid point of the i-th (0-based) iteration of the loops over z, y, x.
GridPoint(i) ==
    <<i % verticesPerSide, (i \div verticesPerSide) % verticesPerSide,
      i \div (verticesPerSide * verticesPerSide)>>

\* Whether the iteration with the result d of terrainDensity ends the loops:
\* by the exception of terrainDensity, or by CAGE_ASSERT(d.valid()), which
\* is checked in a build with assertions (debug) and compiled out otherwise.
DensityError(d, debug) ==
    IF d.threw THEN "invalid land sdf value"
    ELSE IF debug /\ ~valid(d.value) THEN "assert: d.valid()"
    ELSE ""

\* genDensities: N*N*N samples, x fastest, then y, then z; the samples pushed
\* before the first iteration that ends the loops stay in densities.
genDensities(k, debug) ==
    LET n     == verticesPerSide * verticesPerSide * verticesPerSide
        ds    == [i \in 1..n |-> terrainDensity(k, mc2c(GridPoint(i - 1)))]
        stops == {i \in 1..n : DensityError(ds[i], debug) # ""}
        stop  == IF stops = {} THEN n + 1
                 ELSE CHOOSE i \in stops : \A j \in stops : i <= j
    IN  [error   |-> IF stop > n THEN "" ELSE DensityError(ds[stop], debug),
         samples |-> [i \in 1..(stop - 1) |-> ds[i].value]]

\* Bounds of the extractor's results in the model.
MaxVerts == 5

MaxQuads == 2

\* Grid positions of the extractor's vertices: vertex i lies at one of the
\* places of its cell; all vertices are distinct points.
McPlaces ==
    << {<<0, 0, 0>>, <<0, 0, 1>>}, {<<2, 0, 0>>, <<3, 0, 0>>},
       {<<2, 2, 0>>}, {<<0, 2, 0>>},
       {<<1, 1, 2>>}, {<<3, 3, 2>>}, {<<1, 3, 3>>}, {<<3, 1, 3>>} >>

McVertexLists ==
    UNION {{vs \in [1..n -> UNION Range(McPlaces)] :
                \A i \in 1..n : vs[i] \in McPlaces[i]} : n \in 4..MaxVerts}

\* Quads over n vertices: four distinct vertices i..i+3 (0-based) in cyclic
\* order, starting at the first or at the second of them.
McQuads(n) ==
    UNION {{<<i, i + 1, i + 2, i + 3>>, <<i + 1, i + 2, i + 3, i>>} :
              i \in 0..(n - 4)}

\* The extractor emits every face once: no two quads of a list have the
\* same four vertices.
McQuadLists(n) ==
    UNION {{qs \in [1..m -> McQuads(n)] :
                \A a, b \in 1..m : a # b => Range(qs[a]) # Range(qs[b])} :
              m \in 1..MaxQuads}

\* Whether the density grid has samples on both sides of the isovalue 0.
CrossesZero(ds) ==
    /\ \E i \in 1..Len(ds) : ds[i].fin /\ ds[i].v < 0
    /\ \E i \in 1..Len(ds) : ds[i].fin /\ ds[i].v >= 0

\* dualmc::DualMC<float>::build: the meshes it can return for a grid.
McResults(ds) ==
    IF ~CrossesZero(ds) THEN {[vertices |-> <<>>, quads |-> <<>>]}
    ELSE UNION {{[vertices |-> vs, quads |-> qs] : qs \in McQuadLists(Len(vs))} :
                   vs \in McVertexLists}

GenSurfaceNeverThrows(mcV, mcI) == FALSE

\* if (mcVertices.size() == 0 || mcIndices.size() == 0) throw
GenSurfaceThrows(mcV, mcI) == Len(mcV) = 0 \/ Len(mcI) = 0

NoMcResult == [vertices |-> <<>>, quads |-> <<>>]

\* static const int first[6], second[6]
first == <<0, 1, 2, 0, 2, 3>>

second == <<1, 2, 3, 1, 3, 0>>

\* The position of the (0-based) vertex i.
PositionOf(verts, i) == verts[i + 1].position

\* bool which: split the quad by the shorter diagonal.
whichLongerDiagonal(verts, is) ==
    distanceSquared(PositionOf(verts, is[1]), PositionOf(verts, is[3]))
        > distanceSquared(PositionOf(verts, is[2]), PositionOf(verts, is[4]))

which(verts, is) ==
    distanceSquared(PositionOf(verts, is[1]), PositionOf(verts, is[3]))
        < distanceSquared(PositionOf(verts, is[2]), PositionOf(verts, is[4]))

\* for (uint32 i : (which ? first : second)) meshIndices.push_back(is[i]);
SplitQuad(verts, is) ==
    LET order == IF which(verts, is) THEN first ELSE second
    IN  [k \in 1..6 |-> is[order[k] + 1]]

\* n = normalize(cross(b - a, c - a)) of the quad's vertices 0, 1, 2.
QuadNormal(verts, is) ==
    LET a == PositionOf(verts, is[1])
        b == PositionOf(verts, is[2])
        c == PositionOf(verts, is[3])
    IN  normalize(cross(VSub(b, a), VSub(c, a)))

RECURSIVE AddNormalToFirstThree(_, _, _, _)
AddNormalToFirstThree(verts, is, k, n) ==
    IF k > 3 THEN verts
    ELSE AddNormalToFirstThree([verts EXCEPT ![is[k] + 1].normal = VAdd(@, n)],
                               is, k + 1, n)

\* for (uint32 i : is) meshVertices[i].normal += n;
RECURSIVE AddNormal(_, _, _, _)
AddNormal(verts, is, k, n) ==
    IF k > Len(is) THEN verts
    ELSE AddNormal([verts EXCEPT ![is[k] + 1].normal = VAdd(@, n)], is, k + 1, n)

\* The loop over mcIndices: the mesh after the quads k..Len(quads).
RECURSIVE QuadLoop(_, _, _, _)
QuadLoop(verts, indices, quads, k) ==
    IF k > Len(quads) THEN [vertices |-> verts, indices |-> indices]
    ELSE LET is == quads[k]
         IN  QuadLoop(AddNormal(verts, is, 1, QuadNormal(verts, is)),
                      indices \o SplitQuad(verts, is), quads, k + 1)

\* genTriangles: the mesh built from the extractor's vertices and quads.
genTriangles(mcV, mcI) ==
    LET vs == [i \in 1..Len(mcV) |->
                  [position |-> mc2c(mcV[i]), normal |-> Zero3, uv |-> <<<<0, 1>>, <<0, 1>>>>]]
        m  == QuadLoop(vs, <<>>, mcI, 1)
    IN  [vertices |-> [i \in 1..Len(mcV) |->
                          [m.vertices[i] EXCEPT !.normal = normalize(@)]],
         indices |-> m.indices]

\* computeScale: the sum of the edge lengths of the triangles t..tc-1.
RECURSIVE EdgeSum(_, _, _, _)
EdgeSum(verts, indices, tc, k) ==
    IF k >= tc * 3 THEN 0
    ELSE LET t  == k \div 3
             e1 == k % 3
             e2 == (e1 + 1) % 3
             p1 == PositionOf(verts, indices[t * 3 + e1 + 1])
             p2 == PositionOf(verts, indices[t * 3 + e2 + 1])
         IN  distance(p1, p2) + EdgeSum(verts, indices, tc, k + 1)

\* A scale that is not finite (division by a zero edge sum).
NonFiniteScale == 0 - 1

\* planetScale = tc * 3 / sum
computeScale(verts, indices) ==
    LET tc  == Len(indices) \div 3
        sum == EdgeSum(verts, indices, tc, 0)
    IN  IF sum = 0 THEN NonFiniteScale
        ELSE (tc * 3 * FixedOne * FixedOne) \div sum

\* for (auto &it : meshVertices) it.position *= planetScale;
ScaleVertices(verts, scale) ==
    [i \in 1..Len(verts) |->
        [verts[i] EXCEPT !.position =
            IF scale = NonFiniteScale THEN NaNVec ELSE VScale(@, scale)]]

-----------------------------------------------------------------------------
(* The atlas and genUvs.                                                    *)

MaxAtlasSize == 3

NumLayouts == 1

\* A non-finite vec2 component (pixel / 0).
NaNRat == <<0, 0>>

NormalizedUvBySize(pixel, size) == IF size = 0 THEN NaNRat ELSE Rat(pixel, size)

\* pixelCoord * (1 / (size - 1)) as an exact rational.
NormalizedUv(pixel, size) == IF size - 1 = 0 THEN NaNRat ELSE Rat(pixel, size - 1)

\* Pixel coordinates of the atlas vertex j (0-based) in the l-th layout of
\* a W x H atlas: every pixel column 0..W-1 and row 0..H-1 occurs.
LayoutUv(l, j, W, H) == <<(j * l + l - 1) % W, (j + l) % H>>

\* What ComputeCharts / ParameterizeCharts / PackCharts return for the mesh:
\* the triangles of the input in the same order; the atlas vertices are the
\* input vertices (no seams) or one vertex per triangle corner (all seams).
AtlasOf(verts, indices, W, H, l, seams) ==
    [width |-> W, height |-> H, meshCount |-> 1, atlasCount |-> 1,
     vertexArray |->
        IF seams
        THEN [k \in 1..Len(indices) |->
                 [xref |-> indices[k], uv |-> LayoutUv(l, k - 1, W, H)]]
        ELSE [i \in 1..Len(verts) |->
                 [xref |-> i - 1, uv |-> LayoutUv(l, i - 1, W, H)]],
     indexArray |->
        IF seams THEN [k \in 1..Len(indices) |-> k - 1] ELSE indices]

Atlases(verts, indices) ==
    UNION {{AtlasOf(verts, indices, W, H, l, seams) :
                H \in {W, MaxAtlasSize}, l \in 1..NumLayouts, seams \in BOOLEAN} :
              W \in 1..MaxAtlasSize}

NoAtlas == [width |-> 0, height |-> 0, meshCount |-> 0, atlasCount |-> 0,
            vertexArray |-> <<>>, indexArray |-> <<>>]

ApplyAtlasKeepIndices(verts, indices, at) ==
    [vertices |->
        [i \in 1..Len(at.vertexArray) |->
            LET a == at.vertexArray[i]
            IN  [position |-> verts[a.xref + 1].position,
                 normal |-> verts[a.xref + 1].normal,
                 uv |-> <<NormalizedUv(a.uv[1], at.width),
                          NormalizedUv(a.uv[2], at.height)>>]],
     indices |-> indices]

\* The "apply" block of genUvs: the new vertices and indices of the mesh.
ApplyAtlas(verts, indices, at) ==
    [vertices |->
        [i \in 1..Len(at.vertexArray) |->
            LET a == at.vertexArray[i]
            IN  [position |-> verts[a.xref + 1].position,
                 normal |-> verts[a.xref + 1].normal,
                 uv |-> <<NormalizedUv(a.uv[1], at.width),
                          NormalizedUv(a.uv[2], at.height)>>]],
     indices |-> at.indexArray]

-----------------------------------------------------------------------------
(* genTextures: scanline rasterization of the atlas triangles, material     *)
(* evaluation, vertical flip; generatePathProperties.                       *)

textureScale == 2

\* ivec2(sint32(uv[0] * textureScale), sint32(uv[1] * textureScale))
TexturePixel(uv) == <<uv[1] * textureScale, uv[2] * textureScale>>

\* The three conditional swaps that order the corners by y.
SortByY(a, b, c) ==
    LET s1 == IF a[2] > b[2] THEN <<b, a, c>> ELSE <<a, b, c>>
        s2 == IF s1[1][2] > s1[3][2] THEN <<s1[3], s1[2], s1[1]>> ELSE s1
    IN  IF s2[2][2] > s2[3][2] THEN <<s2[1], s2[3], s2[2]>> ELSE s2

\* t + (u - t) * (num / den): ivec2 * float truncates each component.
Lerp(t, u, num, den) ==
    <<t[1] + DivT((u[1] - t[1]) * num, den), t[2] + DivT((u[2] - t[2]) * num, den)>>

secondHalfWithoutFlatTop(t0, t1, i) == i > t1[2] - t0[2]

\* bool secondHalf = i > t1.y - t0.y || t1.y == t0.y
secondHalf(t0, t1, i) == i > t1[2] - t0[2] \/ t1[2] = t0[2]

\* uint32 segmentHeight = secondHalf ? t2.y - t1.y : t1.y - t0.y
segmentHeight(t0, t1, t2, i) ==
    IF secondHalf(t0, t1, i) THEN t2[2] - t1[2] ELSE t1[2] - t0[2]

\* The scanline i of the sorted triangle: its segment height and its span.
Scanline(t0, t1, t2, i) ==
    LET totalHeight == t2[2] - t0[2]
        A == Lerp(t0, t2, i, totalHeight)
        B == IF secondHalf(t0, t1, i)
             THEN Lerp(t1, t2, i - (t1[2] - t0[2]), segmentHeight(t0, t1, t2, i))
             ELSE Lerp(t0, t1, i, segmentHeight(t0, t1, t2, i))
    IN  [segmentHeight |-> segmentHeight(t0, t1, t2, i),
         from |-> IF A[1] > B[1] THEN B[1] ELSE A[1],
         to   |-> IF A[1] > B[1] THEN A[1] ELSE B[1],
         y    |-> t0[2] + i]

\* Coordinates of the triangles given to the rasterizer on its own.
MaxCoord == 3

PixelCoords == 0..MaxCoord

\* What one iteration of the scanline loop can leave: with a segment height
\* of 0, beta is a float division by zero and the conversion of B to sint32
\* is undefined, so the span is any pair of integers.
Scanlines(t0, t1, t2, i) ==
    IF segmentHeight(t0, t1, t2, i) = 0
    THEN {[segmentHeight |-> 0, from |-> a, to |-> b, y |-> t0[2] + i] :
             a \in (0 - 1)..(MaxCoord + 1), b \in (0 - 1)..(MaxCoord + 1)}
    ELSE {Scanline(t0, t1, t2, i)}

\* The pixels (x, y) pushed to xs / ys for one triangle.
TrianglePixels(a, b, c) ==
    LET t == SortByY(a, b, c)
    IN  UNION {LET l == Scanline(t[1], t[2], t[3], i)
               IN  {<<x, l.y>> : x \in l.from .. l.to} :
               i \in 0..(t[3][2] - t[1][2] - 1)}

\* The pixel corners of the (0-based) triangle triIdx of the atlas.
AtlasTriangle(at, triIdx) ==
    [i \in 1..3 |->
        TexturePixel(at.vertexArray[at.indexArray[triIdx * 3 + i] + 1].uv)]

\* barycoord(...).valid(): the uv triangle has an area and finite corners.
BarycoordValid(at, triIdx) ==
    LET t == AtlasTriangle(at, triIdx)
    IN  /\ at.width > 1 /\ at.height > 1
        /\ (t[2][1] - t[1][1]) * (t[3][2] - t[1][2])
              # (t[3][1] - t[1][1]) * (t[2][2] - t[1][2])

\* Whether CAGE_ASSERT(b.valid()) fails for some rasterized pixel.
BarycoordAssertFails(at) ==
    \E triIdx \in 0..(Len(at.indexArray) \div 3 - 1) :
        LET t == AtlasTriangle(at, triIdx)
        IN  TrianglePixels(t[1], t[2], t[3]) # {} /\ ~BarycoordValid(at, triIdx)

\* terrainMaterial: the colour of a pixel of a triangle.
Material(c, triIdx, x, y) ==
    LET t == [ch \in 1..c |-> <<(x + ch * y + triIdx) % 3, 1>>]
    IN  IF t = ZeroTexel(c) THEN [ch \in 1..c |-> <<ch, 1>>] ELSE t

\* The pixelColors loop: the triangles triIdx.. written in order into image.
RECURSIVE PixelColors(_, _, _)
PixelColors(image, at, triIdx) ==
    IF triIdx >= Len(at.indexArray) \div 3 THEN image
    ELSE LET t  == AtlasTriangle(at, triIdx)
             ps == TrianglePixels(t[1], t[2], t[3])
         IN  PixelColors(
                 [image EXCEPT !.px = [q \in DOMAIN image.px |->
                     IF q \in ps THEN Material(image.c, triIdx, q[1], q[2])
                     ELSE image.px[q]]],
                 at, triIdx + 1)

\* image::verticalFlip
verticalFlip(image) ==
    [image EXCEPT !.px = [q \in DOMAIN image.px |->
                             image.px[<<q[1], image.h - 1 - q[2]>>]]]

\* genTextures: the image of c channels for the atlas.
genTextures(at, c) ==
    verticalFlip(PixelColors(
        EmptyImage(at.width * textureScale, at.height * textureScale, c), at, 0))

\* terrainProperties(position, normal, type, difficulty): the tile type and
\* the difficulty of a surface point.
terrainProperties(position, normal) ==
    IF position = NaNVec \/ normal = NaNVec THEN [type |-> 0, difficulty |-> 0]
    ELSE [type |-> (Abs(position[1]) + Abs(position[2])) % 8,
          difficulty |-> Abs(normal[3])]

generatePathPropertiesSkippingLast(verts) ==
    [i \in 1..(Len(verts) - 1) |->
        LET tp == terrainProperties(verts[i].position, verts[i].normal)
        IN  <<tp.difficulty, Rat(2 * tp.type + 1, 16)>>]

\* generatePathProperties: vec2(difficulty, (type + 0.5) / 8) per vertex.
generatePathProperties(verts) ==
    [i \in 1..Len(verts) |->
        LET tp == terrainProperties(verts[i].position, verts[i].normal)
        IN  <<tp.difficulty, Rat(2 * tp.type + 1, 16)>>]

\* exportTerrain, "write geometry for navigation": the v, vn and vt lines in
\* order and the 1-based index k of every corner "k/k/k" of the f lines.
exportNavigation(verts, indices, props) ==
    [v  |-> [i \in 1..Len(verts) |-> verts[i].position],
     vn |-> [i \in 1..Len(verts) |-> verts[i].normal],
     vt |-> props,
     f  |-> [i \in 1..(Len(indices) \div 3) |->
                [j \in 1..3 |-> indices[(i - 1) * 3 + j] + 1]]]

-----------------------------------------------------------------------------
(* Configuration: the state after static initialisation and the operations. *)

\* No image is being inpainted.
\* No file written.
NoObj == [v |-> <<>>, vn |-> <<>>, vt |-> <<>>, f |-> <<>>]

NoLine == [segmentHeight |-> 0, from |-> 0, to |-> 0, y |-> 0]

\* The rasterizer and the worker pool are not in use.
RasterIdle == rasterTri = <<>> /\ rasterRow = 0 /\ rasterLine = NoLine

PoolIdle ==
    chunksCount = 0 /\ threadsCount = 0 /\ workers = <<>> /\ processed = <<>>

OthersIdle == RasterIdle /\ PoolIdle

ImgIdle == img = NoImage /\ img0 = NoImage /\ prevImg = NoImage /\ passes = 0

CfgStart(shapeModes, elevationModes) ==
    /\ configShapeMode \in shapeModes
    /\ configElevationMode \in elevationModes
    /\ terrainShapeFnc = "null"
    /\ terrainElevationFnc = "null"
    /\ lastOp = "init"
    /\ applyResult = "none"
    /\ drewRandom = FALSE
    /\ randomPick = ""
    /\ sdf = NoSdf

\* generateTerrain has not been called.
GenStart(first_pc) ==
    /\ pc = first_pc
    /\ field \in (IF first_pc = "idle" THEN {1} ELSE DensityFields)
    /\ densities = <<>>
    /\ mcVertices = <<>> /\ mcIndices = <<>> /\ extracted = NoMcResult
    /\ meshVertices = <<>> /\ meshIndices = <<>>
    /\ planetScale = FixedOne
    /\ atlas = NoAtlas
    /\ albedo = NoImage /\ special = NoImage
    /\ pathProperties = <<>>
    /\ genError = ""
    /\ stagesRun = <<>>
    /\ navigationObj = NoObj

GenIdle == GenStart("idle")

\* The configuration of a run whose terrain functions are not under study.
CfgIdle == CfgStart({"sphere"}, {"none"})

InitCfg ==
    CfgStart(ShapeConfigValues, ElevationConfigValues) /\ ImgIdle /\ GenIdle
        /\ OthersIdle

\* configShapeMode = name (the configuration is changed between calls).
SetShapeMode ==
    \E name \in ShapeConfigValues :
        /\ configShapeMode' = name
        /\ lastOp' = "setShape"
        /\ randomPick' = ""
        /\ UNCHANGED <<configElevationMode, terrainShapeFnc, terrainElevationFnc,
                       applyResult, drewRandom, sdf, imgVars, genVars, rasterVars, poolVars>>

\* configElevationMode = name.
SetElevationMode ==
    \E name \in ElevationConfigValues :
        /\ configElevationMode' = name
        /\ lastOp' = "setElevation"
        /\ UNCHANGED <<configShapeMode, terrainShapeFnc, terrainElevationFnc,
                       applyResult, drewRandom, randomPick, sdf, imgVars, genVars, rasterVars, poolVars>>

\* terrainApplyConfig: chooseShapeFunction(); chooseElevationFunction();
\* an exception of the first skips the second.
terrainApplyConfig ==
    \E i \in (IF configShapeMode = "random"
               THEN randomRange(0, shapeModesCount) ELSE {0}) :
        LET s == chooseShapeFunction(i)
            e == chooseElevationFunction
        IN  /\ terrainShapeFnc' = s.fnc
            /\ configShapeMode' = s.mode
            /\ drewRandom' = s.drew
            /\ randomPick' = IF s.drew THEN s.mode ELSE randomPick
            /\ terrainElevationFnc' = IF s.threw THEN terrainElevationFnc ELSE e.fnc
            /\ applyResult' = IF s.threw \/ e.threw THEN "threw" ELSE "returned"
            /\ lastOp' = "apply"
            /\ UNCHANGED <<configElevationMode, sdf, imgVars, genVars, rasterVars, poolVars>>

\* One evaluation of the five sdf functions at a position where the active
\* shape function yields s and the active elevation function yields e.
EvalSdf ==
    /\ terrainShapeFnc # "null"       \* CAGE_ASSERT(terrainShapeFnc != nullptr)
    /\ terrainElevationFnc # "null"   \* CAGE_ASSERT(terrainElevationFnc != nullptr)
    /\ \E s \in ShapeValues, e \in ElevationValues(terrainElevationFnc) :
        sdf' = [shape |-> s, elevRaw |-> e,
                elevation |-> terrainSdfElevation(s),
                elevationRaw |-> terrainSdfElevationRaw(e),
                land |-> terrainSdfLand(s, e),
                water |-> terrainSdfWater(s),
                navigation |-> terrainSdfNavigation(s, e)]
    /\ lastOp' = "eval"
    /\ UNCHANGED <<configShapeMode, configElevationMode, terrainShapeFnc,
                   terrainElevationFnc, applyResult, drewRandom, randomPick, imgVars, genVars, rasterVars, poolVars>>

NextCfg == SetShapeMode \/ SetElevationMode \/ terrainApplyConfig

\* Configuration changes and calls of terrainApplyConfig in any order.
SpecCfg == InitCfg /\ [][NextCfg]_vars

\* A run with a registry configuration: terrainApplyConfig, then sampling.
InitSdf ==
    /\ CfgStart(Range(shapeModeNames) \cup {"random"}, Range(elevationModeNames))
    /\ ImgIdle
    /\ GenIdle
    /\ OthersIdle

NextSdf == terrainApplyConfig \/ EvalSdf

SpecSdf == InitSdf /\ [][NextSdf]_vars

-----------------------------------------------------------------------------
(* Inpainting passes over an image left by the texture stage.               *)

InitInpaint ==
    /\ CfgIdle
    /\ GenIdle
    /\ OthersIdle
    /\ \E w \in 1..MaxWidth, h \in 1..MaxHeight, c \in 1..MaxChannels,
          k \in 1..NumFields :
          \E Z \in ZeroSets(w, h) : img = FieldImage(w, h, c, k, Z)
    /\ img0 = img
    /\ prevImg = img
    /\ passes = 0

\* One iteration of the loops `for (k = 0; k < 5; k++) inpaint(image)`.
Inpaint ==
    /\ pc = "idle"                     \* generateTerrain is not running
    /\ passes < inpaintPasses
    /\ img' = inpaint(img)
    /\ prevImg' = img
    /\ passes' = passes + 1
    /\ UNCHANGED <<img0, cfgVars, genVars, rasterVars, poolVars>>

NextInpaint == Inpaint

SpecInpaint == InitInpaint /\ [][NextInpaint]_vars

-----------------------------------------------------------------------------
(* generateTerrain: the stages in order; an exception ends the run.         *)

InitGen == CfgIdle /\ ImgIdle /\ GenStart("genDensities") /\ OthersIdle

GenDensities ==
    /\ pc = "genDensities"
    /\ \E debug \in BOOLEAN :
          LET r == genDensities(field, debug)
          IN  /\ densities' = r.samples
              /\ genError' = r.error
              /\ pc' = IF r.error = "" THEN "genSurface" ELSE "failed"
    /\ stagesRun' = Append(stagesRun, "genDensities")
    /\ UNCHANGED <<field, mcVertices, mcIndices, extracted, meshVertices,
                   meshIndices, planetScale, atlas, albedo, special,
                   pathProperties, navigationObj, rasterVars, poolVars,
                   cfgVars, imgVars>>

\* genSurface: build, release the densities, throw on an empty mesh.
GenSurface ==
    /\ pc = "genSurface"
    /\ \E r \in McResults(densities) :
          /\ mcVertices' = r.vertices
          /\ mcIndices' = r.quads
          /\ extracted' = r
          /\ IF GenSurfaceThrows(r.vertices, r.quads)
             THEN genError' = "generated empty mesh" /\ pc' = "failed"
             ELSE genError' = genError /\ pc' = "genTriangles"
    /\ densities' = <<>>
    /\ stagesRun' = Append(stagesRun, "genSurface")
    /\ UNCHANGED <<meshVertices, meshIndices, planetScale, atlas, albedo, special,
                   pathProperties, field, navigationObj, rasterVars, poolVars, cfgVars, imgVars>>

GenTriangles ==
    /\ pc = "genTriangles"
    /\ meshVertices = <<>>             \* CAGE_ASSERT(meshVertices.empty())
    /\ meshIndices = <<>>              \* CAGE_ASSERT(meshIndices.empty())
    /\ LET m == genTriangles(mcVertices, mcIndices)
       IN  meshVertices' = m.vertices /\ meshIndices' = m.indices
    /\ mcVertices' = <<>>
    /\ mcIndices' = <<>>
    /\ stagesRun' = Append(stagesRun, "genTriangles")
    /\ pc' = "computeScale"
    /\ UNCHANGED <<densities, extracted, planetScale, atlas, albedo, special,
                   pathProperties, genError, field, navigationObj, rasterVars, poolVars, cfgVars, imgVars>>

ComputeScale ==
    /\ pc = "computeScale"
    /\ planetScale' = computeScale(meshVertices, meshIndices)
    /\ meshVertices' = ScaleVertices(meshVertices, planetScale')
    /\ stagesRun' = Append(stagesRun, "computeScale")
    /\ pc' = "genUvs"
    /\ UNCHANGED <<densities, mcVertices, mcIndices, extracted, meshIndices, atlas,
                   albedo, special, pathProperties, genError, field, navigationObj, rasterVars, poolVars, cfgVars, imgVars>>

GenUvs ==
    /\ pc = "genUvs"
    /\ \E at \in Atlases(meshVertices, meshIndices) :
          /\ at.meshCount = 1          \* CAGE_ASSERT(atlas->meshCount == 1)
          /\ at.atlasCount = 1         \* CAGE_ASSERT(atlas->atlasCount == 1)
          /\ atlas' = at
          /\ LET m == ApplyAtlas(meshVertices, meshIndices, at)
             IN  meshVertices' = m.vertices /\ meshIndices' = m.indices
    /\ stagesRun' = Append(stagesRun, "genUvs")
    /\ pc' = "genTextures"
    /\ UNCHANGED <<densities, mcVertices, mcIndices, extracted, planetScale,
                   albedo, special, pathProperties, genError, field, navigationObj, rasterVars, poolVars, cfgVars, imgVars>>

\* genTextures; a failing CAGE_ASSERT(b.valid()) ends a debug run and is
\* compiled out of a release run.
GenTextures ==
    /\ pc = "genTextures"
    /\ stagesRun' = Append(stagesRun, "genTextures")
    /\ \/ /\ BarycoordAssertFails(atlas)
          /\ genError' = "assert: b.valid()"
          /\ pc' = "failed"
          /\ UNCHANGED <<albedo, special>>
       \/ /\ albedo' = genTextures(atlas, 3)
          /\ special' = genTextures(atlas, 2)
          /\ pc' = "inpaintAlbedo"
          /\ UNCHANGED genError
    /\ UNCHANGED <<densities, mcVertices, mcIndices, extracted, meshVertices,
                   meshIndices, planetScale, atlas, pathProperties, field, navigationObj, rasterVars, poolVars, cfgVars,
                   imgVars>>

\* for (uint32 k = 0; k < 5; k++) inpaint(albedo): one iteration, passes is k.
InpaintAlbedo ==
    /\ pc = "inpaintAlbedo"
    /\ albedo' = inpaint(albedo)
    /\ stagesRun' = IF passes = 0 THEN Append(stagesRun, "inpaintAlbedo")
                    ELSE stagesRun
    /\ IF passes + 1 < inpaintPasses
       THEN passes' = passes + 1 /\ pc' = pc
       ELSE passes' = 0 /\ pc' = "inpaintSpecial"
    /\ UNCHANGED <<densities, mcVertices, mcIndices, extracted, meshVertices,
                   meshIndices, planetScale, atlas, special, pathProperties,
                   genError, field, navigationObj, rasterVars, poolVars, cfgVars, img, img0, prevImg>>

\* for (uint32 k = 0; k < 5; k++) inpaint(special): one iteration.
InpaintSpecial ==
    /\ pc = "inpaintSpecial"
    /\ special' = inpaint(special)
    /\ stagesRun' = IF passes = 0 THEN Append(stagesRun, "inpaintSpecial")
                    ELSE stagesRun
    /\ IF passes + 1 < inpaintPasses
       THEN passes' = passes + 1 /\ pc' = pc
       ELSE passes' = 0 /\ pc' = "generatePathProperties"
    /\ UNCHANGED <<densities, mcVertices, mcIndices, extracted, meshVertices,
                   meshIndices, planetScale, atlas, albedo, pathProperties,
                   genError, field, navigationObj, rasterVars, poolVars, cfgVars, img, img0, prevImg>>

GeneratePathProperties ==
    /\ pc = "generatePathProperties"
    /\ pathProperties' = generatePathProperties(meshVertices)
    /\ stagesRun' = Append(stagesRun, "generatePathProperties")
    /\ pc' = "done"
    /\ UNCHANGED <<densities, mcVertices, mcIndices, extracted, meshVertices,
                   meshIndices, planetScale, atlas, albedo, special, genError,
                   field, navigationObj, rasterVars, poolVars, cfgVars, imgVars>>

\* exportTerrain, called after generateTerrain has returned.
ExportTerrain ==
    /\ pc = "done"
    /\ navigationObj' = exportNavigation(meshVertices, meshIndices, pathProperties)
    /\ stagesRun' = Append(stagesRun, "exportTerrain")
    /\ pc' = "exported"
    /\ UNCHANGED <<field, densities, mcVertices, mcIndices, extracted,
                   meshVertices, meshIndices, planetScale, atlas, albedo, special,
                   pathProperties, genError, rasterVars, poolVars, cfgVars,
                   imgVars>>

NextGen ==
    \/ GenDensities \/ GenSurface \/ GenTriangles \/ ComputeScale \/ GenUvs
    \/ GenTextures \/ InpaintAlbedo \/ InpaintSpecial \/ GeneratePathProperties
    \/ ExportTerrain

SpecGen == InitGen /\ [][NextGen]_vars

\* Every sequence of inpaint passes of the model: the passes over an image
\* on its own and the passes generateTerrain applies to albedo and special.
InitPasses == InitInpaint \/ InitGen

NextPasses == NextInpaint \/ NextGen

SpecPasses == InitPasses /\ [][NextPasses]_vars

-----------------------------------------------------------------------------
(* The rasterizer of genTextures on its own, for every triangle with        *)
(* integer pixel corners: one step per iteration of the scanline loop.      *)

InitRaster ==
    /\ CfgIdle /\ ImgIdle /\ GenIdle /\ PoolIdle
    /\ \E a \in PixelCoords \X PixelCoords, b \in PixelCoords \X PixelCoords,
          c \in PixelCoords \X PixelCoords : rasterTri = SortByY(a, b, c)
    /\ rasterRow = 0
    /\ rasterLine = NoLine

\* for (sint32 i = 0; i < totalHeight; i++): the iteration i = rasterRow.
RasterRow ==
    /\ rasterTri # <<>>
    /\ rasterRow < rasterTri[3][2] - rasterTri[1][2]
    /\ rasterLine' \in Scanlines(rasterTri[1], rasterTri[2], rasterTri[3], rasterRow)
    /\ rasterRow' = rasterRow + 1
    /\ UNCHANGED <<rasterTri, cfgVars, imgVars, genVars, poolVars>>

NextRaster == RasterRow

SpecRaster == InitRaster /\ [][NextRaster]_vars

-----------------------------------------------------------------------------
(* The inner worker pool: static partitioning of the chunk list over the    *)
(* worker threads; every worker processes the chunks of its range in order. *)

MaxChunks == 6

MaxThreads == 4

tasksSplitRemainderLast(t, T, C) ==
    LET share     == C \div T
        remainder == C % T
        extra     == IF t > T - remainder THEN t - (T - remainder) ELSE 0
        begin     == t * share + extra
    IN  [begin |-> begin,
         end   |-> begin + share + (IF t >= T - remainder THEN 1 ELSE 0)]

\* The range [begin, end) of the worker t (0-based) of T workers over C
\* chunks: contiguous ranges of near-equal share, the remainder going to the
\* first workers.
tasksSplit(t, T, C) ==
    LET share     == C \div T
        remainder == C % T
        begin     == t * share + (IF t < remainder THEN t ELSE remainder)
    IN  [begin |-> begin,
         end   |-> begin + share + (IF t < remainder THEN 1 ELSE 0)]

InitPool ==
    /\ CfgIdle /\ ImgIdle /\ GenIdle /\ RasterIdle
    /\ chunksCount \in 0..MaxChunks
    /\ threadsCount \in 1..MaxThreads
    /\ workers = <<>>
    /\ processed = [c \in 1..chunksCount |-> 0]

\* The next worker thread starts and takes its range.
StartWorker ==
    /\ Len(workers) < threadsCount
    /\ LET r == tasksSplit(Len(workers), threadsCount, chunksCount)
       IN  workers' = Append(workers, [begin |-> r.begin, end |-> r.end,
                                       next |-> r.begin])
    /\ UNCHANGED <<chunksCount, threadsCount, processed, cfgVars, imgVars, genVars,
                   rasterVars>>

\* A started worker processes the next chunk of its range.
ProcessChunk ==
    \E t \in 1..Len(workers) :
        /\ workers[t].next < workers[t].end
        /\ processed' = [processed EXCEPT ![workers[t].next + 1] = @ + 1]
        /\ workers' = [workers EXCEPT ![t].next = @ + 1]
        /\ UNCHANGED <<chunksCount, threadsCount, cfgVars, imgVars, genVars,
                       rasterVars>>

NextPool == StartWorker \/ ProcessChunk

SpecPool == InitPool /\ [][NextPool]_vars

-----------------------------------------------------------------------------
(* Properties of the configuration and of the sdf functions.                *)

\* C3: whenever terrainApplyConfig returns normally, the configured shape and
\* elevation names are registry names and the active evaluators are the
\* registry entries of those names (an unknown name always throws).
C3_UnknownNameIsFatal ==
    (lastOp = "apply" /\ applyResult = "returned") =>
        /\ configShapeMode \in Range(shapeModeNames)
        /\ terrainShapeFnc =
              FunctionNamed(shapeModeNames, shapeModeFunctions, configShapeMode)
        /\ configElevationMode \in Range(elevationModeNames)
        /\ terrainElevationFnc =
              FunctionNamed(elevationModeNames, elevationModeFunctions,
                            configElevationMode)

\* C4: a terrainApplyConfig call with shape mode "random" draws, activates a
\* registry function and overwrites the configuration with that function's
\* registry name; a later call on the persisted configuration keeps both and
\* draws no random number.
C4_RandomShapePersisted ==
    [][ /\ (configShapeMode = "random" /\ lastOp' = "apply") =>
            /\ drewRandom'
            /\ \E i \in 1..shapeModesCount :
                  /\ terrainShapeFnc' = shapeModeFunctions[i]
                  /\ configShapeMode' = shapeModeNames[i]
                  /\ randomPick' = shapeModeNames[i]
        /\ (randomPick # "" /\ lastOp' = "apply") =>
            /\ ~drewRandom'
            /\ configShapeMode' = randomPick
            /\ terrainShapeFnc' = terrainShapeFnc
            /\ terrainShapeFnc' =
                  FunctionNamed(shapeModeNames, shapeModeFunctions, randomPick)
      ]_vars

\* C4 witness: the second call after a random draw has run.
C4_Witness ==
    /\ lastOp = "apply"
    /\ randomPick # ""
    /\ ~drewRandom
    /\ configShapeMode = randomPick

\* C7 as stated: land(p) = shape(p) - elevation(p)/ratio with elevation(p)
\* the value of terrainSdfElevation.
C7_LandOfSdfElevation ==
    (lastOp = "eval" /\ ~sdf.land.threw /\ ~sdf.elevation.threw) =>
        sdf.land.value.v * meshElevationRatio =
            sdf.shape.v * meshElevationRatio - sdf.elevation.value.v

\* C7 amended: land(p) = shape(p) - elevationRaw(p)/ratio, with elevationRaw
\* the value of the selected elevation function (terrainSdfElevationRaw), and
\* terrainSdfLand throws exactly when that value is not finite.
C7_LandOfElevationRaw ==
    lastOp = "eval" =>
        /\ sdf.land.threw <=> ~(sdf.shape.fin /\ sdf.elevRaw.fin)
        /\ ~sdf.land.threw =>
              /\ ~sdf.elevationRaw.threw
              /\ sdf.land.value.fin
              /\ sdf.land.value.v * meshElevationRatio =
                    sdf.shape.v * meshElevationRatio - sdf.elevationRaw.value.v

\* C7 witness: a sample where the raw elevation differs from shape * ratio.
C7_Witness ==
    /\ lastOp = "eval"
    /\ ~sdf.land.threw
    /\ sdf.elevRaw.v # sdf.shape.v * meshElevationRatio
    /\ sdf.land.value.v # 0

-----------------------------------------------------------------------------
(* Properties of inpainting.                                               *)

\* The texels of the clamped 3x3 window around t, t excluded, that are not
\* zero in the image.
NonZeroNeighbours(image, t) ==
    {n \in Texels(image.w, image.h) :
        /\ n # t
        /\ n[1] - t[1] \in -1..1
        /\ n[2] - t[2] \in -1..1
        /\ image.px[n] # ZeroTexel(image.c)}

RECURSIVE ChannelSum(_, _, _)
ChannelSum(image, N, ch) ==
    IF N = {} THEN <<0, 1>>
    ELSE LET n == CHOOSE n \in N : TRUE
         IN  RatAdd(image.px[n][ch], ChannelSum(image, N \ {n}, ch))

\* value * |N| = sum of the channel over N, as exact rationals.
IsMeanOf(value, image, N) ==
    \A ch \in 1..image.c :
        LET sum == ChannelSum(image, N, ch)
        IN  value[ch][1] * Cardinality(N) * sum[2] = sum[1] * value[ch][2]

\* C2: after a pass every texel that was zero in the source image holds the
\* arithmetic mean of its non-zero neighbours in the clamped 3x3 window of the
\* source image, and zero when it has none.
C2_InpaintPass ==
    passes >= 1 =>
        /\ img.w = prevImg.w /\ img.h = prevImg.h /\ img.c = prevImg.c
        /\ \A t \in Texels(prevImg.w, prevImg.h) :
              prevImg.px[t] = ZeroTexel(prevImg.c) =>
                  LET N == NonZeroNeighbours(prevImg, t)
                  IN  IF N = {} THEN img.px[t] = ZeroTexel(img.c)
                      ELSE IsMeanOf(img.px[t], prevImg, N)

\* C2 witness: an interior zero texel with 8 non-zero neighbours received a
\* mean that is not a whole number; another zero texel had no neighbour.
C2_Witness ==
    /\ passes = 1
    /\ \E t \in Texels(prevImg.w, prevImg.h) :
          /\ prevImg.px[t] = ZeroTexel(prevImg.c)
          /\ Cardinality(NonZeroNeighbours(prevImg, t)) = 8
          /\ \E ch \in 1..img.c : img.px[t][ch][2] = 8

IsZeroBlock2x2(image) ==
    LET Z == {t \in Texels(image.w, image.h) : image.px[t] = ZeroTexel(image.c)}
    IN  /\ Z # Texels(image.w, image.h)
        /\ \E x0 \in 0..(image.w - 2), y0 \in 0..(image.h - 2) :
              Z = {x0, x0 + 1} \X {y0, y0 + 1}

\* C6: an image that is a 2x2 block of zero texels inside an otherwise
\* non-zero field has no zero texel after 3 or more passes.
C6_BlockConverges ==
    (IsZeroBlock2x2(img0) /\ passes >= 3) =>
        \A t \in Texels(img.w, img.h) : img.px[t] # ZeroTexel(img.c)

\* C6 witness: three passes over an interior 2x2 block.
C6_Witness ==
    /\ passes = 3
    /\ IsZeroBlock2x2(img0)
    /\ img0.w >= 4 /\ img0.h >= 4
    /\ img0.px[<<1, 1>>] = ZeroTexel(img0.c)
    /\ img0.px[<<2, 2>>] = ZeroTexel(img0.c)
    /\ img.px[<<1, 1>>] # ZeroTexel(img.c)

ZeroTexels(image) == {t \in DOMAIN image.px : image.px[t] = ZeroTexel(image.c)}

\* No zero texel of the image has a non-zero texel in its 8-neighbourhood.
NoZeroNextToNonZero(image) ==
    \A t \in ZeroTexels(image), n \in DOMAIN image.px :
        (n[1] - t[1] \in -1..1 /\ n[2] - t[2] \in -1..1) => n \in ZeroTexels(image)

\* C12: a pass over an image in which no zero texel is adjacent to a
\* non-zero texel returns the image unchanged, texel for texel.
C12_InpaintIdempotent ==
    (passes >= 1 /\ NoZeroNextToNonZero(prevImg)) => img = prevImg

\* C12 witness: the holes of an image were filled by earlier passes, and one
\* more pass was applied to the image without zero texels.
C12_Witness ==
    /\ passes >= 2
    /\ ZeroTexels(img0) # {}
    /\ ZeroTexels(prevImg) = {}
    /\ NoZeroNextToNonZero(prevImg)
    /\ img = prevImg

\* Every non-zero texel of a has the same value in b.
NonZeroKept(a, b) ==
    \A t \in DOMAIN a.px :
        a.px[t] # ZeroTexel(a.c) => (t \in DOMAIN b.px /\ b.px[t] = a.px[t])

\* C14: in every step, for the image inpaint() is applied to and for albedo
\* and special during the passes of generateTerrain, a texel that is
\* non-zero before the step has the same value after it, so the zero texels
\* after a pass are a subset of the zero texels before it.
C14_HolesOnlyShrink ==
    [][/\ NonZeroKept(img, img')
       /\ NonZeroKept(albedo, albedo')
       /\ NonZeroKept(special, special')
       /\ (img.w = img'.w /\ img.h = img'.h) => ZeroTexels(img') \subseteq ZeroTexels(img)
       /\ pc = "inpaintAlbedo" => ZeroTexels(albedo') \subseteq ZeroTexels(albedo)
       /\ pc = "inpaintSpecial" => ZeroTexels(special') \subseteq ZeroTexels(special)]_vars

\* C14 witness: two consecutive passes each filled some of the holes and a
\* hole is still left.
C14_Witness ==
    /\ passes = 2
    /\ ZeroTexels(img) # {}
    /\ ZeroTexels(img) # ZeroTexels(prevImg)
    /\ ZeroTexels(prevImg) # ZeroTexels(img0)
    /\ NonZeroKept(prevImg, img)

-----------------------------------------------------------------------------
(* Properties of the generation pipeline.                                   *)

HasRun(stage) == \E i \in 1..Len(stagesRun) : stagesRun[i] = stage

\* Squared distance of two extractor vertices (0-based) in grid units.
GridDistanceSquared(i, j) ==
    LET a == extracted.vertices[i + 1]
        b == extracted.vertices[j + 1]
    IN  (a[1] - b[1]) * (a[1] - b[1]) + (a[2] - b[2]) * (a[2] - b[2])
          + (a[3] - b[3]) * (a[3] - b[3])

\* The six indices genTriangles appended for the k-th quad.
QuadTriangles(k) == SubSeq(meshIndices, 6 * k - 5, 6 * k)

\* C1: right after genTriangles, a quad whose diagonal 0-2 is strictly
\* shorter than its diagonal 1-3 was split into (i0,i1,i2), (i0,i2,i3), and a
\* quad whose diagonal 1-3 is strictly shorter into (i1,i2,i3), (i1,i3,i0).
C1_ShorterDiagonalSplit ==
    pc = "computeScale" =>
        /\ Len(meshIndices) = 6 * Len(extracted.quads)
        /\ \A k \in 1..Len(extracted.quads) :
              LET q   == extracted.quads[k]
                  d02 == GridDistanceSquared(q[1], q[3])
                  d13 == GridDistanceSquared(q[2], q[4])
              IN  /\ d02 < d13 =>
                        QuadTriangles(k) = <<q[1], q[2], q[3], q[1], q[3], q[4]>>
                  /\ d13 < d02 =>
                        QuadTriangles(k) = <<q[2], q[3], q[4], q[2], q[4], q[1]>>

\* C1 witness: a mesh with a quad of each kind has been triangulated.
C1_Witness ==
    /\ pc = "computeScale"
    /\ \E k \in 1..Len(extracted.quads) :
          LET q == extracted.quads[k]
          IN  GridDistanceSquared(q[1], q[3]) < GridDistanceSquared(q[2], q[4])
    /\ \E k \in 1..Len(extracted.quads) :
          LET q == extracted.quads[k]
          IN  GridDistanceSquared(q[2], q[4]) < GridDistanceSquared(q[1], q[3])

\* C5: when the extractor returned no vertices or no quads, generateTerrain
\* has ended with the empty-mesh error and no stage after genSurface ran;
\* otherwise that error is not raised.
C5_EmptyMeshIsFatal ==
    HasRun("genSurface") =>
        IF Len(extracted.vertices) = 0 \/ Len(extracted.quads) = 0
        THEN /\ pc = "failed"
             /\ genError = "generated empty mesh"
             /\ stagesRun = <<"genDensities", "genSurface">>
             /\ meshVertices = <<>> /\ meshIndices = <<>>
        ELSE genError # "generated empty mesh"

\* C5 witness: a run that ended with the empty-mesh error.
C5_Witness ==
    /\ pc = "failed"
    /\ genError = "generated empty mesh"
    /\ Len(extracted.vertices) = 0

\* 0 <= r < 1 for a rational r
InUnitHalfOpen(r) == r[2] > 0 /\ 0 <= r[1] /\ r[1] < r[2]

\* 0 <= r <= 1 for a rational r
InUnitClosed(r) == r[2] > 0 /\ 0 <= r[1] /\ r[1] <= r[2]

C9_IndexInvariant ==
    HasRun("genTriangles") =>
        /\ Len(meshIndices) % 3 = 0
        /\ \A k \in 1..Len(meshIndices) :
              meshIndices[k] >= 0 /\ meshIndices[k] < Len(meshVertices)
        /\ HasRun("genUvs") =>
              /\ Len(meshVertices) = Len(atlas.vertexArray)
              /\ meshIndices = atlas.indexArray
              /\ \A i \in 1..Len(meshVertices) :
                    atlas.vertexArray[i].xref < Len(extracted.vertices)

\* C9 witness: genUvs replaced the mesh by one with more vertices.
C9_Witness ==
    /\ pc = "genTextures"
    /\ Len(meshVertices) > Len(extracted.vertices)
    /\ \E k \in 1..Len(meshIndices) : meshIndices[k] >= Len(extracted.vertices)

\* Sum of f[k] over the set K of a function into vec3.
RECURSIVE VSum(_, _)
VSum(f, K) ==
    IF K = {} THEN Zero3
    ELSE LET k == CHOOSE k \in K : TRUE IN VAdd(f[k], VSum(f, K \ {k}))

\* normalize(cross(edge1, edge2)) of the (1-based) output triangle t.
TriangleNormal(t) ==
    LET a == PositionOf(meshVertices, meshIndices[3 * t - 2])
        b == PositionOf(meshVertices, meshIndices[3 * t - 1])
        c == PositionOf(meshVertices, meshIndices[3 * t])
    IN  normalize(cross(VSub(b, a), VSub(c, a)))

\* Two normals agree up to the rounding of the fixed-point arithmetic.
SameDirection(a, b) ==
    IF a = NaNVec \/ b = NaNVec THEN a = b
    ELSE \A c \in 1..3 : Abs(a[c] - b[c]) <= FixedOne \div 100

\* C10 as stated: right after genTriangles the normal of every vertex is the
\* normalized sum of the face normals of the output triangles that contain
\* the vertex, one per triangle.
C10_NormalOfTriangles ==
    pc = "computeScale" =>
        \A v \in 0..(Len(meshVertices) - 1) :
            LET T == {t \in 1..(Len(meshIndices) \div 3) :
                         v \in {meshIndices[3 * t - 2], meshIndices[3 * t - 1],
                                meshIndices[3 * t]}}
                n == [t \in T |-> TriangleNormal(t)]
            IN  SameDirection(meshVertices[v + 1].normal, normalize(VSum(n, T)))

\* C10 amended: right after genTriangles the normal of every vertex is the
\* normalized sum of one normal per extractor quad that contains the vertex,
\* the quad's normal being normalize(cross(p1 - p0, p2 - p0)) of its first
\* three vertices whichever split was chosen.
C10_NormalOfQuads ==
    pc = "computeScale" =>
        \A v \in 0..(Len(meshVertices) - 1) :
            LET Q == {k \in 1..Len(extracted.quads) :
                         v \in Range(extracted.quads[k])}
                n == [k \in Q |->
                        LET q == extracted.quads[k]
                            a == PositionOf(meshVertices, q[1])
                            b == PositionOf(meshVertices, q[2])
                            c == PositionOf(meshVertices, q[3])
                        IN  normalize(cross(VSub(b, a), VSub(c, a)))]
            IN  meshVertices[v + 1].normal = normalize(VSum(n, Q))

\* C10 witness: a vertex of two quads with different normals, split along
\* the diagonal 1-3, has a normal.
C10_Witness ==
    /\ pc = "computeScale"
    /\ Len(extracted.quads) = 2
    /\ QuadTriangles(1) # <<extracted.quads[1][1], extracted.quads[1][2],
                           extracted.quads[1][3], extracted.quads[1][1],
                           extracted.quads[1][3], extracted.quads[1][4]>>
    /\ \E v \in 0..(Len(meshVertices) - 1) :
          /\ v \in Range(extracted.quads[1]) /\ v \in Range(extracted.quads[2])
          /\ meshVertices[v + 1].normal # NaNVec
          /\ TriangleNormal(1) # TriangleNormal(3)

\* The sample genDensities is to store for the grid point (x, y, z).
LandAt(x, y, z) ==
    LET p == <<(x * 2 * FixedOne) \div verticesPerSide - FixedOne,
               (y * 2 * FixedOne) \div verticesPerSide - FixedOne,
               (z * 2 * FixedOne) \div verticesPerSide - FixedOne>>
    IN  RSub(ShapeAt(field, p), RDivInt(ElevationAt(field, p), meshElevationRatio))

GridSide == 0..(verticesPerSide - 1)

PropertyOf(vertex) ==
    LET tp == terrainProperties(vertex.position, vertex.normal)
    IN  <<tp.difficulty, Rat(2 * tp.type + 1, 16)>>

\* C16: once generateTerrain has completed, pathProperties holds one pair
\* per vertex of the final mesh, in vertex order, the pair of a vertex being
\* (difficulty, (type + 0.5) / 8) of its position and normal; and every
\* corner k/k/k of the faces of the navigation file names an existing vt line,
\* which holds the pair of the vertex of the v line k.
C16_PathProperties ==
    /\ pc \in {"done", "exported"} =>
          /\ Len(pathProperties) = Len(meshVertices)
          /\ \A i \in 1..Len(meshVertices) :
                pathProperties[i] = PropertyOf(meshVertices[i])
    /\ pc = "exported" =>
          \A i \in 1..Len(navigationObj.f) : \A j \in 1..3 :
              LET k == navigationObj.f[i][j]
              IN  /\ k \in 1..Len(navigationObj.vt)
                  /\ k \in 1..Len(navigationObj.v)
                  /\ navigationObj.vt[k] = PropertyOf(meshVertices[k])

\* C16 witness: an exported run whose atlas has more vertices than the
\* extractor returned, with two vertices of different properties.
C16_Witness ==
    /\ pc = "exported"
    /\ Len(navigationObj.f) > 0
    /\ Len(pathProperties) > Len(extracted.vertices)
    /\ \E i, j \in 1..Len(pathProperties) : pathProperties[i] # pathProperties[j]

Min3(a, b, c) ==
    IF a <= b /\ a <= c THEN a ELSE IF b <= c THEN b ELSE c

Max3(a, b, c) ==
    IF a >= b /\ a >= c THEN a ELSE IF b >= c THEN b ELSE c

\* C15: the corners are sorted by y; every scanline the loop iterated has a
\* segment height greater than zero; every pixel (x, y) of its span lies in
\* the bounding box of the corners, with t0.y <= y < t2.y; and no scanline
\* is iterated for a triangle with t0.y = t2.y.
C15_RasterizerSafe ==
    rasterTri # <<>> =>
        LET t0 == rasterTri[1]
            t1 == rasterTri[2]
            t2 == rasterTri[3]
        IN  /\ t0[2] <= t1[2] /\ t1[2] <= t2[2]
            /\ rasterRow <= t2[2] - t0[2]
            /\ rasterRow >= 1 =>
                  /\ rasterLine.segmentHeight > 0
                  /\ rasterLine.y = t0[2] + rasterRow - 1
                  /\ t0[2] <= rasterLine.y /\ rasterLine.y < t2[2]
                  /\ \A x \in rasterLine.from .. rasterLine.to :
                        /\ Min3(t0[1], t1[1], t2[1]) <= x
                        /\ x <= Max3(t0[1], t1[1], t2[1])

\* C15 witness: the first scanline of a flat-top triangle, with a span of
\* more than one pixel, and the last scanline of a triangle with a middle
\* corner have been iterated.
C15_Witness ==
    /\ rasterTri # <<>>
    /\ rasterRow >= 1
    /\ rasterLine.from < rasterLine.to
    /\ \/ rasterTri[1][2] = rasterTri[2][2] /\ rasterRow = 1
       \/ /\ rasterTri[1][2] < rasterTri[2][2]
          /\ rasterTri[2][2] < rasterTri[3][2]
          /\ rasterRow = rasterTri[3][2] - rasterTri[1][2]

RangeSize(w) == w.end - w.begin

AllWorkersDone ==
    /\ Len(workers) = threadsCount
    /\ \A t \in 1..Len(workers) : workers[t].next = workers[t].end

\* C13: the ranges of the workers are contiguous and in order, start at 0
\* and end at C, so they are pairwise disjoint and cover [0, C); their sizes
\* differ by at most one and never grow from one worker to the next; no
\* chunk is processed twice, and when all workers are done every chunk has
\* been processed once.
C13_ChunkPartition ==
    threadsCount >= 1 =>
        /\ \A t \in 1..Len(workers) :
              /\ 0 <= workers[t].begin /\ workers[t].begin <= workers[t].end
              /\ workers[t].end <= chunksCount
              /\ workers[t].begin = (IF t = 1 THEN 0 ELSE workers[t - 1].end)
        /\ Len(workers) = threadsCount => workers[threadsCount].end = chunksCount
        /\ \A a, b \in 1..Len(workers) :
              /\ RangeSize(workers[a]) - RangeSize(workers[b]) \in -1..1
              /\ a < b => RangeSize(workers[a]) >= RangeSize(workers[b])
        /\ \A c \in 1..chunksCount : processed[c] <= 1
        /\ AllWorkersDone => \A c \in 1..chunksCount : processed[c] = 1

\* C13 witness: all workers are done, for fewer chunks than threads and for
\* more chunks than threads with a remainder.
C13_Witness ==
    /\ AllWorkersDone
    /\ chunksCount > 0
    /\ \/ threadsCount > chunksCount
       \/ threadsCount < chunksCount /\ chunksCount % threadsCount # 0
    /\ \A c \in 1..chunksCount : processed[c] = 1

====
